---- MODULE Spec2Model ----
(***************************************************************************)
(* The main window of the M64Py front-end (m64py/frontend/mainwindow.py)   *)
(* as a state machine.  One action per Qt event handler or signal slot of  *)
(* MainWindow; the worker, the emulator core and the settings store are    *)
(* seen through the calls the window makes on them (the variable calls     *)
(* holds the calls of the handler that ran last, in order) and through the *)
(* attributes the window reads back (worker.state, worker file path).      *)
(***************************************************************************)
EXTENDS Integers, Sequences, FiniteSets, TLC

\* ------------------------------------------------------------------ bounds

\* Number of rom_opened signals delivered in one run of the model.
MaxOpens == 2

\* Number of distinct ROM file paths the user can pick.
MaxFiles == 2

\* Number of rom_opened signals delivered while the window size is followed
\* (SpecSize).
MaxSizeOpens == 1

\* ------------------------------------------------- program values and names

\* wait_for_initialize: "if self._initialize_attempt < 10".
MaxAttempts == 10

\* create_state_slots: "for slot in range(10)".
NumSlots == 10

\* self.widgets_height = None (before the first showEvent).
None == -1

\* menubar_height + statusbar_height as read in showEvent (positive once the
\* bars are laid out).
BarsHeight == 45

\* self.devicePixelRatio() of the screen the window is on.
devicePixelRatio == 1

M64EMU_STOPPED == "M64EMU_STOPPED"
M64EMU_RUNNING == "M64EMU_RUNNING"
M64EMU_PAUSED == "M64EMU_PAUSED"
EmuStates == {M64EMU_STOPPED, M64EMU_RUNNING, M64EMU_PAUSED}

\* m64py.core.defs: the three preset content sizes.
SIZE_1X == <<320, 240>>
SIZE_2X == <<640, 480>>
SIZE_3X == <<960, 720>>

\* self.sizes = {SIZE_1X: action1X, SIZE_2X: action2X, SIZE_3X: action3X}:
\* the keys; the action of a preset is named by the preset.
sizes == {SIZE_1X, SIZE_2X, SIZE_3X}

\* Window widths and heights the window system can give the window.
Widths == {320, 640, 960}
Heights == {240 + BarsHeight, 480 + BarsHeight, 720 + BarsHeight}

\* Geometry of the window as built by setupUi, before the first show.
InitialGeometry == <<960, 720 + BarsHeight>>

\* Sizes the 'size' setting may hold from an earlier run: a preset, a size
\* that is no preset, and the content size of the initial geometry.
StoredSizes == {SIZE_1X, <<640, 240>>, SIZE_3X}

Slots == 0 .. (NumSlots - 1)

\* ROM file paths, by number; 0 is the empty path ('' or None).
Files == 1 .. MaxFiles

\* Qt keys seen by the event filter; QT2SDL2 maps some of them to SDL2
\* scancodes (m64py.frontend.keymap).
Key_Enter == "Key_Enter"
Key_Return == "Key_Return"
Key_A == "Key_A"
Key_Unmapped == "Key_Unmapped"
Keys == {Key_Enter, Key_Return, Key_A, Key_Unmapped}
QT2SDL2 == (Key_Return :> 40) @@ (Key_Enter :> 88) @@ (Key_A :> 4)

KeyPress == "KeyPress"
KeyRelease == "KeyRelease"
OtherEvent == "Other"
EventTypes == {KeyPress, KeyRelease, OtherEvent}

\* The controls on_state_changed enables or disables, by the element of the
\* emulator-state tuple that drives them.
LoadControls == {"menuLoad", "menuRecent", "menuStateSlot"}
ActionControls == {"actionLoadState", "actionSaveState", "actionLoadFrom",
                   "actionSaveAs", "actionSaveScreenshot", "actionShowROMInfo",
                   "actionMute", "actionStop", "actionReset", "actionSoftReset",
                   "actionLimitFPS", "actionSlowDown", "actionSpeedUp",
                   "actionFullscreen"}
SettingsControls == {"actionPaths", "actionEmulator", "actionGraphics",
                     "actionPlugins"}
Controls == LoadControls \cup ActionControls \cup SettingsControls
              \cup {"actionCheats", "actionPause"}

\* ------------------------------------------------------------------- state

VARIABLES
    initialized,         \* self._initialized
    initialize_attempt,  \* self._initialize_attempt
    slot_checked,        \* isChecked() of self.slots[0..9]
    sizes_checked,       \* isChecked() of the three 'Window Size' actions
    sizes_grouped,       \* create_size_actions has run (exclusive group, resize connected)
    stack_index,         \* self.stack.currentIndex()
    cheats,              \* self.cheats is a Cheat dialog (TRUE) or None (FALSE)
    widgets_height,      \* self.widgets_height (None before the first show)
    vidext,              \* self.vidext
    geometry,            \* <<self.width(), self.height()>>
    win,                 \* fullscreen flag, menubar/statusbar visibility, video cursor
    enabled,             \* isEnabled() of every control on_state_changed drives
    states,              \* the last tuple on_state_changed received, <<>> before the first
    action_checked,      \* isChecked() of actionMute, actionPause, actionLimitFPS
    caption,             \* window title
    status,              \* status bar label
    settings_size,       \* settings.qset value "size"
    settings_last_dir,   \* settings.qset value "last_dir" (a directory, by number)
    worker_state,        \* self.worker.state
    worker_filepath,     \* the file path the worker holds (0: none)
    core_state,          \* the core's emulator state (what core_state_query reports)
    core_handle,         \* self.worker.core.get_handle() is not None
    timers,              \* pending QTimer.singleShot(1000, wait_for_initialize), oldest first;
                         \* each entry is the number of the rom_opened that started its chain
    opens,               \* number of on_rom_opened so far
    polls,               \* polls[o]: wait_for_initialize runs of the chain of open o
    toggled,             \* toggled[o]: worker.toggle_actions calls of the chain of open o
    last,                \* the handler that ran last, with its inputs and result
    calls                \* calls on collaborators made by that handler, in order

vars == <<initialized, initialize_attempt, slot_checked, sizes_checked,
          sizes_grouped, stack_index, cheats, widgets_height, vidext, geometry,
          win, enabled, states, action_checked, caption, status, settings_size,
          settings_last_dir, worker_state, worker_filepath, core_state,
          core_handle, timers, opens, polls, toggled, last, calls>>

\* Groups of variables, for UNCHANGED.
pollVars == <<initialize_attempt, timers, opens, polls, toggled>>
sizeVars == <<sizes_checked, sizes_grouped, widgets_height, geometry, settings_size>>
romVars == <<initialized, stack_index, cheats, action_checked, caption, status>>
menuVars == <<slot_checked, enabled, states>>
workerVars == <<worker_state, worker_filepath, core_state>>
fixedVars == <<vidext, core_handle>>

\* A call on a collaborator: its name and its (integer) argument, 0 when none.
Call(fn, arg) == [fn |-> fn, arg |-> arg]

\* ---------------------------------------------------------------- helpers

\* create_state_slots: ten checkable actions in one exclusive group, slot 0
\* checked.
create_state_slots == [s \in Slots |-> s = 0]

\* Variant: the lambda without its default argument (s bound late, to the
\* loop's last slot).
slot_lambda_late(slot) == NumSlots - 1

\* The slot the lambda connected to self.slots[slot].triggered passes on
\* ("lambda t, s=slot: self.worker.state_set_slot(s)").

slot_lambda(slot) == slot

\* QAction.trigger() of a checkable action in an exclusive QActionGroup: the
\* action becomes (or stays) the only checked one.
exclusive_trigger(checked, a) == [b \in DOMAIN checked |-> b = a]

\* QAction.setChecked(value) on action a; with the actions in an exclusive
\* group, checking one unchecks the others.
setChecked(checked, grouped, a, value) ==
    [b \in DOMAIN checked |->
        IF b = a THEN value
        ELSE IF value /\ grouped THEN FALSE
        ELSE checked[b]]

\* Variant: set_sizes without its else branch.
set_sizes_keep(checked, grouped, size) ==
    IF size \in sizes
    THEN setChecked(checked, grouped, size, TRUE)
    ELSE checked

\* set_sizes: "Sets 'Window Size' radio buttons on resize event."
set_sizes(checked, grouped, size) ==
    IF size \in sizes
    THEN setChecked(checked, grouped, size, TRUE)
    ELSE [b \in DOMAIN checked |-> FALSE]

\* Variant: on_toggle_fs without its closing setWindowState.
on_toggle_fs_no_state(w) ==
    IF w.fullscreen
    THEN [w EXCEPT !.menubar = TRUE, !.statusbar = TRUE, !.cursor = "ArrowCursor"]
    ELSE [w EXCEPT !.menubar = FALSE, !.statusbar = FALSE, !.cursor = "BlankCursor"]

\* on_toggle_fs on the window's record: show or hide the bars, set the
\* cursor, then flip WindowFullScreen in the window state.
on_toggle_fs(w) ==
    IF w.fullscreen
    THEN [w EXCEPT !.menubar = TRUE, !.statusbar = TRUE,
                   !.cursor = "ArrowCursor", !.fullscreen = ~w.fullscreen]
    ELSE [w EXCEPT !.menubar = FALSE, !.statusbar = FALSE,
                   !.cursor = "BlankCursor", !.fullscreen = ~w.fullscreen]

\* Variant: the timer restarted whatever the counter.
should_rearm_always(attempt) == TRUE

\* wait_for_initialize: whether another one-second timer is started, given
\* the counter after its increment.

should_rearm(attempt) == attempt < MaxAttempts

\* Variant: keys forwarded only while running.
key_forwarded_running_only(wstate) == wstate = M64EMU_RUNNING

\* eventFilter: the test that lets a key event through to the worker.

key_forwarded(wstate) == wstate \in {M64EMU_RUNNING, M64EMU_PAUSED}

\* Variant: the path not checked.
file_missing_unchecked(isfile) == FALSE

\* on_file_open: "if not os.path.isfile(filepath)".

file_missing(isfile) == ~isfile

\* Variant: the test made on the state held before core_state_query.
stop_needed_stale(before, after) == before \in {M64EMU_RUNNING, M64EMU_PAUSED}

\* on_file_open: whether worker.stop() is called, given worker.state before
\* and after core_state_query refreshed it.
stop_needed(before, after) == after \in {M64EMU_RUNNING, M64EMU_PAUSED}

\* Variant: actionPlugins.setEnabled(action).
state_enablement_plugins(st) ==
    [c \in Controls |->
        IF c \in LoadControls THEN st[1]
        ELSE IF c \in ActionControls THEN st[3]
        ELSE IF c = "actionCheats" THEN st[4]
        ELSE IF c = "actionPause" THEN st[2]
        ELSE IF c = "actionPlugins" THEN st[3]
        ELSE ~st[3]]

\* on_state_changed: the enablement of every control for a tuple
\* (load, pause, action, cheats).
state_enablement(st) ==
    [c \in Controls |->
        IF c \in LoadControls THEN st[1]
        ELSE IF c \in ActionControls THEN st[3]
        ELSE IF c = "actionCheats" THEN st[4]
        ELSE IF c = "actionPause" THEN st[2]
        ELSE ~st[3]]

\* window_size_triggered: the calls on the core, for a window size and the
\* worker state at the time.
window_size_calls(size, wh, wstate) ==
    IF vidext /\ core_handle
    THEN <<Call("config.open_section", 0),
           Call("config.set_parameter.ScreenWidth", size[1]),
           Call("config.set_parameter.ScreenHeight", size[2] - wh)>>
         \o (IF wstate \in {M64EMU_RUNNING, M64EMU_PAUSED}
             THEN <<Call("core_state_set.M64CORE_VIDEO_SIZE",
                         (size[1] * devicePixelRatio) * 65536
                           + (size[2] * devicePixelRatio - wh))>>
             ELSE <<>>)
    ELSE <<>>

\* window_size_triggered: the radio buttons and the 'size' setting follow
\* the window size; the closing self.resize(width, height) sets the size the
\* window already has.
window_size_triggered(size, wh, grouped) ==
    /\ sizes_checked' = set_sizes(sizes_checked, grouped, <<size[1], size[2] - wh>>)
    /\ settings_size' = <<size[1], size[2] - wh>>

\* ------------------------------------------------------------------- Init

\* The window after __init__.  What setupUi builds is taken at Qt's
\* defaults: every control enabled, no 'Window Size' action checked, Mute
\* and Pause unchecked, Limit FPS checked.  vidext and the stored size come
\* from the settings, the core handle from worker.init().
Init ==
    /\ initialized = FALSE
    /\ initialize_attempt = 0
    /\ slot_checked = create_state_slots
    /\ sizes_checked = [p \in sizes |-> FALSE]
    /\ sizes_grouped = FALSE
    /\ stack_index = 0
    /\ cheats = FALSE
    /\ widgets_height = None
    /\ vidext \in BOOLEAN
    /\ geometry = InitialGeometry
    /\ win = [fullscreen |-> FALSE, menubar |-> TRUE, statusbar |-> TRUE,
              cursor |-> "ArrowCursor"]
    /\ enabled = [c \in Controls |-> TRUE]
    /\ states = <<>>
    /\ action_checked = [Mute |-> FALSE, Pause |-> FALSE, LimitFPS |-> TRUE]
    /\ caption = "M64Py"
    /\ status = "M64Py version"
    /\ settings_size \in StoredSizes
    /\ settings_last_dir = 0
    /\ worker_state = M64EMU_STOPPED
    /\ worker_filepath = 0
    /\ core_state = M64EMU_STOPPED
    /\ core_handle \in BOOLEAN
    /\ timers = <<>>
    /\ opens = 0
    /\ polls = <<>>
    /\ toggled = <<>>
    /\ last = [op |-> "__init__"]
    /\ calls = <<>>

\* ------------------------------------------------------------ environment

\* The emulator core changes state in the worker's thread; the worker's
\* cached state follows at once or at the next core_state_query.
core_state_changed(s) ==
    /\ s # core_state
    /\ core_state' = s
    /\ worker_state' \in {worker_state, s}
    /\ last' = [op |-> "core_state_changed"]
    /\ calls' = <<>>
    /\ UNCHANGED <<pollVars, sizeVars, romVars, menuVars, fixedVars, win,
                   worker_filepath, settings_last_dir>>

\* --------------------------------------------------------------- handlers

\* showEvent: on the first show, learn the bars' height, resize to the
\* stored size (a resize to another size is delivered as a resizeEvent at
\* once, and runs window_size_triggered), then create the size actions.
showEvent ==
    /\ widgets_height \in {None, 0}
    /\ LET size == <<settings_size[1], settings_size[2] + BarsHeight>>
       IN  /\ widgets_height' = BarsHeight
           /\ geometry' = size
           /\ IF size # geometry
              THEN /\ window_size_triggered(size, BarsHeight, FALSE)
                   /\ calls' = window_size_calls(size, BarsHeight, worker_state)
              ELSE /\ UNCHANGED <<sizes_checked, settings_size>>
                   /\ calls' = <<>>
           /\ sizes_grouped' = TRUE
    /\ last' = [op |-> "showEvent"]
    /\ UNCHANGED <<pollVars, romVars, menuVars, workerVars, fixedVars, win,
                   settings_last_dir>>

\* resizeEvent: the window already has the event's size.
resizeEvent(size) ==
    /\ geometry' = size
    /\ IF widgets_height \notin {None, 0}
       THEN /\ window_size_triggered(size, widgets_height, sizes_grouped)
            /\ calls' = window_size_calls(size, widgets_height, worker_state)
            /\ last' = [op |-> "resizeEvent", size |-> size, triggered |-> TRUE]
       ELSE /\ UNCHANGED <<sizes_checked, settings_size>>
            /\ calls' = <<>>
            /\ last' = [op |-> "resizeEvent", size |-> size, triggered |-> FALSE]
    /\ UNCHANGED <<pollVars, romVars, menuVars, workerVars, fixedVars, win,
                   settings_last_dir, sizes_grouped, widgets_height>>

\* The user triggers one of the 'Window Size' actions (connected, and in
\* their exclusive group, once create_size_actions has run): Qt checks it,
\* then the lambda resizes the window, which delivers a resizeEvent when
\* the size differs.
size_action_triggered(p) ==
    /\ sizes_grouped
    /\ LET size == <<p[1], p[2] + widgets_height>>
           checked == exclusive_trigger(sizes_checked, p)
       IN  /\ geometry' = size
           /\ IF size # geometry
              THEN /\ sizes_checked' = set_sizes(checked, TRUE, <<size[1], size[2] - widgets_height>>)
                   /\ settings_size' = <<size[1], size[2] - widgets_height>>
                   /\ calls' = window_size_calls(size, widgets_height, worker_state)
              ELSE /\ sizes_checked' = checked
                   /\ UNCHANGED settings_size
                   /\ calls' = <<>>
    /\ last' = [op |-> "size_action_triggered", size |-> p]
    /\ UNCHANGED <<pollVars, romVars, menuVars, workerVars, fixedVars, win,
                   settings_last_dir, sizes_grouped, widgets_height>>

\* on_rom_opened: show the video surface, create the cheat dialog, start the
\* first one-second timer of a new poll chain.  The signal reaches the
\* window through the event loop, after the window has been shown.
on_rom_opened ==
    /\ opens < MaxOpens
    /\ widgets_height # None
    /\ stack_index' = IF vidext THEN 1 ELSE stack_index
    /\ cheats' = TRUE
    /\ status' = "goodname"
    /\ opens' = opens + 1
    /\ timers' = Append(timers, opens + 1)
    /\ polls' = Append(polls, 0)
    /\ toggled' = Append(toggled, 0)
    /\ last' = [op |-> "on_rom_opened"]
    /\ calls' = <<>>
    /\ UNCHANGED <<initialize_attempt, initialized, action_checked, caption,
                   sizeVars, menuVars, workerVars, fixedVars, win,
                   settings_last_dir>>

\* wait_for_initialize: the oldest pending timer fires.
wait_for_initialize ==
    /\ timers # <<>>
    /\ LET o == Head(timers)
           saw == core_state
       IN  /\ worker_state' = saw
           /\ polls' = [polls EXCEPT ![o] = @ + 1]
           /\ IF saw = M64EMU_STOPPED
              THEN /\ initialize_attempt' = initialize_attempt + 1
                   /\ timers' = IF should_rearm(initialize_attempt + 1)
                                THEN Append(Tail(timers), o)
                                ELSE Tail(timers)
                   /\ calls' = <<Call("core_state_query", 0)>>
                   /\ last' = [op |-> "wait_for_initialize", open |-> o,
                               saw |-> saw,
                               rearmed |-> should_rearm(initialize_attempt + 1)]
                   /\ UNCHANGED <<toggled, sizes_checked, settings_size>>
              ELSE /\ window_size_triggered(geometry, widgets_height, sizes_grouped)
                   /\ calls' = <<Call("core_state_query", 0)>>
                                 \o window_size_calls(geometry, widgets_height, saw)
                                 \o <<Call("toggle_actions", 0)>>
                   /\ toggled' = [toggled EXCEPT ![o] = @ + 1]
                   /\ timers' = Tail(timers)
                   /\ last' = [op |-> "wait_for_initialize", open |-> o,
                               saw |-> saw, rearmed |-> FALSE]
                   /\ UNCHANGED initialize_attempt
    /\ UNCHANGED <<opens, romVars, menuVars, fixedVars, win, core_state,
                   worker_filepath, settings_last_dir, sizes_grouped,
                   widgets_height, geometry>>

\* Variant: Limit FPS unchecked like Mute and Pause.
closed_action_checked_all_off ==
    [Mute |-> FALSE, Pause |-> FALSE, LimitFPS |-> FALSE]

\* on_rom_closed: the check marks it sets on actionMute, actionPause and
\* actionLimitFPS.
closed_action_checked ==
    [Mute |-> FALSE, Pause |-> FALSE, LimitFPS |-> TRUE]

\* on_rom_closed: leave fullscreen (vidext), back to the ROM view, reset the
\* checkable actions, drop the cheat dialog.
on_rom_closed ==
    /\ IF vidext /\ win.fullscreen
       THEN /\ win' = on_toggle_fs(win)
            /\ calls' = <<Call("toggle_fs.emit", 0)>>
       ELSE /\ UNCHANGED win
            /\ calls' = <<>>
    /\ stack_index' = 0
    /\ action_checked' = closed_action_checked
    /\ caption' = "M64Py"
    /\ status' = "ROM closed."
    /\ cheats' = FALSE
    /\ initialized' = FALSE
    /\ last' = [op |-> "on_rom_closed"]
    /\ UNCHANGED <<pollVars, sizeVars, menuVars, workerVars, fixedVars,
                   settings_last_dir>>

\* on_vidext_set_mode: the worker hands over the OpenGL context.
on_vidext_set_mode ==
    /\ initialized' = TRUE
    /\ calls' = <<Call("context.doneCurrent", 0), Call("context.create", 0),
                  Call("context.moveToThread", 0)>>
    /\ last' = [op |-> "on_vidext_set_mode"]
    /\ UNCHANGED <<pollVars, sizeVars, menuVars, workerVars, fixedVars, win,
                   settings_last_dir, stack_index, cheats, action_checked,
                   caption, status>>

\* The user triggers a checkable action: Qt flips its check mark, then the
\* connected slot makes its one call on the worker.
checkable_triggered(a, fn) ==
    /\ action_checked' = [action_checked EXCEPT ![a] = ~@]
    /\ calls' = <<Call(fn, 0)>>
    /\ UNCHANGED <<pollVars, sizeVars, menuVars, workerVars, fixedVars, win,
                   settings_last_dir, initialized, stack_index, cheats,
                   caption, status>>

\* on_actionPause_triggered: "Toggles pause."
on_actionPause_triggered ==
    /\ checkable_triggered("Pause", "toggle_pause")
    /\ last' = [op |-> "on_actionPause_triggered"]

\* on_actionMute_triggered: "Toggles mute."
on_actionMute_triggered ==
    /\ checkable_triggered("Mute", "toggle_mute")
    /\ last' = [op |-> "on_actionMute_triggered"]

\* on_actionLimitFPS_triggered: "Toggles speed limit."
on_actionLimitFPS_triggered ==
    /\ checkable_triggered("LimitFPS", "toggle_speed_limit")
    /\ last' = [op |-> "on_actionLimitFPS_triggered"]

\* on_actionCheats_triggered: "Shows cheat dialog."
on_actionCheats_triggered ==
    /\ calls' = IF cheats THEN <<Call("cheats.show", 0)>> ELSE <<>>
    /\ last' = [op |-> "on_actionCheats_triggered"]
    /\ UNCHANGED <<pollVars, sizeVars, romVars, menuVars, workerVars,
                   fixedVars, win, settings_last_dir>>

\* The user triggers the action of save-state slot s.
slot_triggered(s) ==
    /\ slot_checked' = exclusive_trigger(slot_checked, s)
    /\ calls' = <<Call("state_set_slot", slot_lambda(s))>>
    /\ last' = [op |-> "slot_triggered", slot |-> s]
    /\ UNCHANGED <<pollVars, sizeVars, romVars, workerVars, fixedVars, win,
                   settings_last_dir, enabled, states>>

\* on_state_changed: "Toggles actions state."
on_state_changed(st) ==
    /\ enabled' = state_enablement(st)
    /\ states' = st
    /\ calls' = <<>>
    /\ last' = [op |-> "on_state_changed", states |-> st]
    /\ UNCHANGED <<pollVars, sizeVars, romVars, workerVars, fixedVars, win,
                   settings_last_dir, slot_checked>>

\* eventFilter: a key press or release (or any other event) reaches the
\* window; ret is the filter's return value.  toggle_fs is connected to
\* on_toggle_fs in the same thread, so the slot runs inside emit().
eventFilter(type, key, alt) ==
    /\ IF type \in {KeyPress, KeyRelease}
       THEN IF ~key_forwarded(worker_state)
            THEN /\ calls' = <<>>
                 /\ last' = [op |-> "eventFilter", type |-> type, key |-> key,
                             alt |-> alt, ret |-> FALSE]
                 /\ UNCHANGED win
            ELSE IF type = KeyPress /\ alt /\ key \in {Key_Enter, Key_Return}
            THEN /\ win' = on_toggle_fs(win)
                 /\ calls' = <<Call("toggle_fs.emit", 0)>>
                 /\ last' = [op |-> "eventFilter", type |-> type, key |-> key,
                             alt |-> alt, ret |-> TRUE]
            ELSE /\ calls' = IF key \in DOMAIN QT2SDL2
                             THEN <<Call(IF type = KeyPress
                                         THEN "send_sdl_keydown"
                                         ELSE "send_sdl_keyup", QT2SDL2[key])>>
                             ELSE <<>>
                 /\ last' = [op |-> "eventFilter", type |-> type, key |-> key,
                             alt |-> alt, ret |-> TRUE]
                 /\ UNCHANGED win
       ELSE /\ calls' = <<>>
            /\ last' = [op |-> "eventFilter", type |-> type, key |-> key,
                        alt |-> alt, ret |-> FALSE]
            /\ UNCHANGED win
    /\ UNCHANGED <<pollVars, sizeVars, romVars, menuVars, workerVars,
                   fixedVars, settings_last_dir>>

\* on_file_open: "Opens ROM file.", for the path it ends up with and what
\* os.path.isfile says of it.
on_file_open(path, isfile) ==
    IF file_missing(isfile)
    THEN /\ calls' = <<Call("InfoDialog.exec", path)>>
         /\ UNCHANGED <<worker_state, worker_filepath>>
    ELSE /\ worker_state' = core_state
         /\ calls' = <<Call("core_state_query", 0)>>
                       \o (IF stop_needed(worker_state, core_state)
                           THEN <<Call("stop", 0)>>
                           ELSE <<>>)
                       \o <<Call("set_filepath", path), Call("start", 0),
                            Call("raise_", 0)>>
         /\ worker_filepath' = path

\* The file_open signal (ROM list, recent files, command line): filepath is
\* empty when a recent-files action sent it, and the path is the action's
\* data.
file_open(filepath, data, isfile) ==
    /\ LET path == IF filepath = 0 THEN data ELSE filepath
       IN  /\ on_file_open(path, isfile)
           /\ last' = [op |-> "on_file_open", filepath |-> path,
                       isfile |-> isfile]
    /\ UNCHANGED <<pollVars, sizeVars, romVars, menuVars, fixedVars, win,
                   core_state, settings_last_dir>>

\* QFileInfo(file_path).path(): the directory of a file, by number.
DirOf(f) == (f + 1) \div 2

\* on_actionManually_triggered: "Shows ROM file dialog."; file_path is
\* what the dialog returns (0: cancelled).
on_actionManually_triggered(file_path, isfile) ==
    /\ IF file_path # 0
       THEN /\ on_file_open(file_path, isfile)
            /\ settings_last_dir' = DirOf(file_path)
            /\ last' = [op |-> "on_file_open", filepath |-> file_path,
                        isfile |-> isfile]
       ELSE /\ calls' = <<>>
            /\ last' = [op |-> "on_actionManually_triggered"]
            /\ UNCHANGED <<worker_state, worker_filepath, settings_last_dir>>
    /\ UNCHANGED <<pollVars, sizeVars, romVars, menuVars, fixedVars, win,
                   core_state>>

\* --------------------------------------------------------- specifications

\* ROM open and close, and the initialization poll.
NextPoll ==
    \/ showEvent
    \/ on_rom_opened
    \/ wait_for_initialize
    \/ on_rom_closed
    \/ \E s \in EmuStates : core_state_changed(s)

SpecPoll == Init /\ [][NextPoll]_vars

\* The same, with the worker's signals in the order its thread emits them:
\* rom_opened for a ROM, then rom_closed for it, before the next rom_opened
\* (self.cheats is a dialog exactly between the two).
NextPollSeq ==
    \/ showEvent
    \/ (~cheats /\ on_rom_opened)
    \/ wait_for_initialize
    \/ (cheats /\ on_rom_closed)
    \/ \E s \in EmuStates : core_state_changed(s)

SpecPollSeq == Init /\ [][NextPollSeq]_vars

\* The event loop fires every pending single-shot timer; rom_opened is
\* delivered finitely often.
FairSpecPoll == SpecPoll /\ WF_vars(wait_for_initialize)

\* The menus: save-state slots and control enablement.
NextMenu ==
    \/ \E s \in Slots : slot_triggered(s)
    \/ \E st \in BOOLEAN \X BOOLEAN \X BOOLEAN \X BOOLEAN : on_state_changed(st)

SpecMenu == Init /\ [][NextMenu]_vars

\* Keyboard input and fullscreen.
NextKeys ==
    \/ \E type \in EventTypes, key \in Keys, alt \in BOOLEAN :
          eventFilter(type, key, alt)
    \/ on_rom_closed
    \/ \E s \in EmuStates : core_state_changed(s)

SpecKeys == Init /\ [][NextKeys]_vars

\* A ROM's life in the window: opened, used (fullscreen, pause, mute, speed
\* limit, cheats, video context), closed.  The poll timers of the opens stay
\* pending: wait_for_initialize changes none of what these handlers set.
NextRom ==
    \/ showEvent
    \/ on_rom_opened
    \/ on_rom_closed
    \/ on_vidext_set_mode
    \/ on_actionPause_triggered
    \/ on_actionMute_triggered
    \/ on_actionLimitFPS_triggered
    \/ on_actionCheats_triggered
    \/ \E key \in {Key_Return, Key_A}, alt \in BOOLEAN :
          eventFilter(KeyPress, key, alt)
    \/ \E s \in EmuStates : core_state_changed(s)

SpecRom == Init /\ [][NextRom]_vars

\* Opening ROM files.
NextFile ==
    \/ \E filepath \in Files \cup {0}, data \in Files, isfile \in BOOLEAN :
          file_open(filepath, data, isfile)
    \/ \E file_path \in Files \cup {0}, isfile \in BOOLEAN :
          on_actionManually_triggered(file_path, isfile)
    \/ \E s \in EmuStates : core_state_changed(s)

SpecFile == Init /\ [][NextFile]_vars

\* The window size: every handler that runs window_size_triggered.
NextSize ==
    \/ showEvent
    \/ \E w \in Widths, h \in Heights : resizeEvent(<<w, h>>)
    \/ \E p \in sizes : size_action_triggered(p)
    \/ (opens < MaxSizeOpens /\ on_rom_opened)
    \/ wait_for_initialize
    \/ \E s \in EmuStates : core_state_changed(s)

SpecSize == Init /\ [][NextSize]_vars

\* Every handler.
Next ==
    \/ NextPoll
    \/ NextMenu
    \/ NextKeys
    \/ NextFile
    \/ NextSize
    \/ NextRom

Spec == Init /\ [][Next]_vars

\* ------------------------------------------------------------------ claims

\* The poll chain of open o has no timer pending.
ChainEnded(o) == \A i \in 1 .. Len(timers) : timers[i] # o

\* C1: the initialization-attempt counter stays between 0 and 10 whatever
\* sequence of rom_opened, rom_closed and poll-timer firings happens,
\* several ROMs opened one after another included.
C1_AttemptBounded == initialize_attempt \in 0 .. MaxAttempts

\* C2: every ROM open is waited for during up to 10 polls: a poll chain that
\* has ended without pushing the window size and calling toggle_actions has
\* polled 10 times (and saw the core stopped each time), so a core that
\* leaves M64EMU_STOPPED within the first 10 polls of an open is noticed.
C2_EveryOpenWaitsTenPolls ==
    \A o \in 1 .. opens :
        (ChainEnded(o) /\ toggled[o] = 0) => polls[o] = MaxAttempts

\* C3: initialization polling terminates: the chain of an open runs
\* wait_for_initialize at most 10 times, a poll starts another timer only
\* when it saw M64EMU_STOPPED and the counter is then below 10, and
\* eventually no poll timer is pending (even if the core stays stopped).
C3_PollingTerminates ==
    /\ [](\A o \in 1 .. opens : polls[o] <= MaxAttempts)
    /\ [][(polls' # polls /\ Len(timers') = Len(timers))
            => (core_state = M64EMU_STOPPED /\ initialize_attempt' < MaxAttempts)]_vars
    /\ <>[](timers = <<>>)

C3_Witness ==
    \E o \in 1 .. opens :
        /\ polls[o] = MaxAttempts
        /\ toggled[o] = 0
        /\ timers = <<>>
        /\ core_state = M64EMU_STOPPED

\* C4: exactly one of the ten slot actions is checked, slot 0 at first; a
\* trigger of slot s leaves s the checked one and calls
\* worker.state_set_slot with exactly s, and no other handler changes the
\* checked slot.
C4_SlotExclusive ==
    /\ slot_checked[0]
    /\ [](Cardinality({s \in Slots : slot_checked[s]}) = 1)
    /\ [][IF last'.op = "slot_triggered"
          THEN /\ slot_checked'[last'.slot]
               /\ calls' = <<Call("state_set_slot", last'.slot)>>
          ELSE UNCHANGED slot_checked]_vars

C4_Witness ==
    /\ last.op = "slot_triggered"
    /\ last.slot = 7
    /\ slot_checked[7]
    /\ ~slot_checked[0]
    /\ calls = <<Call("state_set_slot", 7)>>

\* C5: once a state tuple (load, pause, action, cheats) has been received,
\* the Load/Recent/StateSlot menus are enabled iff load, actionPause iff
\* pause, actionCheats iff cheats, the emulator-control actions iff action,
\* the four settings actions iff not action; so no settings action is
\* enabled while actionStop is.
C5_EnablementFollowsStates ==
    states # <<>> =>
        /\ \A c \in LoadControls : enabled[c] <=> states[1]
        /\ enabled["actionPause"] <=> states[2]
        /\ \A c \in ActionControls : enabled[c] <=> states[3]
        /\ enabled["actionCheats"] <=> states[4]
        /\ \A c \in SettingsControls : enabled[c] <=> ~states[3]
        /\ \A c \in SettingsControls : ~(enabled[c] /\ enabled["actionStop"])

C5_Witness ==
    /\ states = <<FALSE, TRUE, TRUE, FALSE>>
    /\ enabled["actionStop"]
    /\ ~enabled["actionPlugins"]
    /\ ~enabled["menuLoad"]

\* C6: a key press or release is forwarded only while the emulator is
\* running or paused: otherwise the event is not consumed and nothing is
\* sent or toggled; else it is consumed, a press of Alt+Enter/Return emits
\* toggle_fs and sends no key-down, and any other key is sent (down on
\* press, up on release) iff QT2SDL2 maps it.
C6_KeysForwarded ==
    (last.op = "eventFilter" /\ last.type \in {KeyPress, KeyRelease}) =>
        IF worker_state \notin {M64EMU_RUNNING, M64EMU_PAUSED}
        THEN ~last.ret /\ calls = <<>>
        ELSE /\ last.ret
             /\ IF last.type = KeyPress /\ last.alt
                     /\ last.key \in {Key_Enter, Key_Return}
                THEN calls = <<Call("toggle_fs.emit", 0)>>
                ELSE IF last.key \in DOMAIN QT2SDL2
                THEN calls = <<Call(IF last.type = KeyPress
                                    THEN "send_sdl_keydown"
                                    ELSE "send_sdl_keyup", QT2SDL2[last.key])>>
                ELSE calls = <<>>

C6_Witness ==
    /\ last.op = "eventFilter"
    /\ last.type = KeyPress
    /\ last.alt
    /\ last.key = Key_Return
    /\ worker_state = M64EMU_PAUSED
    /\ last.ret
    /\ calls = <<Call("toggle_fs.emit", 0)>>

\* C7: on_file_open with a path that is no existing file only shows the
\* info dialog: no core_state_query, stop, set_filepath or start, and the
\* worker's state and file path and the core's state are left as they were.
C7_MissingFileOnlyDialog ==
    [][(last'.op = "on_file_open" /\ ~last'.isfile)
         => /\ calls' = <<Call("InfoDialog.exec", last'.filepath)>>
            /\ UNCHANGED <<worker_state, worker_filepath, core_state>>]_vars

C7_Witness ==
    /\ last.op = "on_file_open"
    /\ ~last.isfile
    /\ last.filepath = 2
    /\ core_state = M64EMU_RUNNING
    /\ worker_state = M64EMU_RUNNING
    /\ worker_filepath = 1
    /\ calls = <<Call("InfoDialog.exec", 2)>>

\* C8: after window_size_triggered((w, h)) the preset action of a size is
\* checked iff the content size (w, h - widgets_height) is that preset, none
\* when it is no preset; and always at most one preset is checked, which is
\* then the size stored under the 'size' setting.
C8_SizeActionsFollowSize ==
    /\ (\/ last.op = "resizeEvent" /\ last.triggered
        \/ last.op = "wait_for_initialize" /\ last.saw # M64EMU_STOPPED)
         => \A p \in sizes :
                sizes_checked[p] <=> (<<geometry[1], geometry[2] - widgets_height>> = p)
    /\ Cardinality({p \in sizes : sizes_checked[p]}) <= 1
    /\ \A p \in sizes : sizes_checked[p] => settings_size = p

C8_Witness ==
    /\ last.op = "resizeEvent"
    /\ last.triggered
    /\ last.size = <<320, 480 + BarsHeight>>
    /\ settings_size = <<320, 480>>
    /\ \A p \in sizes : ~sizes_checked[p]

\* C9: on_file_open of an existing file calls, in this order,
\* core_state_query, worker.stop iff the refreshed worker state is running
\* or paused, set_filepath with the new path, then start exactly once.
C9_OpenOrder ==
    (last.op = "on_file_open" /\ last.isfile) =>
        /\ calls = <<Call("core_state_query", 0)>>
                     \o (IF worker_state \in {M64EMU_RUNNING, M64EMU_PAUSED}
                         THEN <<Call("stop", 0)>>
                         ELSE <<>>)
                     \o <<Call("set_filepath", last.filepath), Call("start", 0),
                          Call("raise_", 0)>>
        /\ worker_filepath = last.filepath

C9_Witness ==
    /\ last.op = "on_file_open"
    /\ last.isfile
    /\ last.filepath = 2
    /\ worker_state = M64EMU_PAUSED
    /\ calls[2] = Call("stop", 0)
    /\ calls[4] = Call("start", 0)

\* C10: the menubar and statusbar are hidden and the video cursor is blank
\* iff the window is fullscreen, after any sequence of toggle_fs signals,
\* and two consecutive toggles restore the state.
C10_BarsTrackFullscreen ==
    /\ win.fullscreen <=> ~win.menubar
    /\ win.fullscreen <=> ~win.statusbar
    /\ win.fullscreen <=> (win.cursor = "BlankCursor")
    /\ on_toggle_fs(on_toggle_fs(win)) = win

C10_Witness ==
    /\ win.fullscreen
    /\ ~win.menubar
    /\ ~win.statusbar
    /\ win.cursor = "BlankCursor"
    /\ last.op = "eventFilter"

\* C11: after on_rom_closed the stacked view shows the ROM view (index 0),
\* the cheat dialog is absent, _initialized is False, Mute and Pause are
\* unchecked, Limit FPS is checked and, with vidext, the window is not
\* fullscreen, whatever happened while the ROM was open; with no cheat
\* dialog on_actionCheats_triggered shows nothing; and the video surface
\* (index 1) is shown only with vidext, between an on_rom_opened and the next
\* on_rom_closed (where self.cheats is a dialog).
C11_ClosedRomIsIdle ==
    /\ last.op = "on_rom_closed" =>
          /\ stack_index = 0
          /\ ~cheats
          /\ ~initialized
          /\ ~action_checked.Mute
          /\ ~action_checked.Pause
          /\ action_checked.LimitFPS
          /\ (vidext => ~win.fullscreen)
    /\ (last.op = "on_actionCheats_triggered" /\ ~cheats) => calls = <<>>
    /\ stack_index \in {0, 1}
    /\ stack_index = 1 => (vidext /\ cheats)

C11_Witness ==
    /\ last.op = "on_rom_closed"
    /\ vidext
    /\ opens = 2
    /\ calls = <<Call("toggle_fs.emit", 0)>>
    /\ ~win.fullscreen
    /\ win.menubar
    /\ stack_index = 0
    /\ action_checked = closed_action_checked

====
